---- MODULE Spec2Model ----
(***************************************************************************)
(* The openFDA drug-shortage tracker (srcs/openfda_shortage_tracker.py):   *)
(* fetch -> normalize/build -> load old snapshot -> diff -> optional save  *)
(* -> report.                                                              *)
(*                                                                         *)
(* Python values are tagged tuples: <<"None">>, <<"str", s>>, <<"int", n>>,*)
(* <<"list", seq>>, <<"dict", f>> (f a function on strings).  Python's ==  *)
(* on these values is structural, as is TLA+ equality on the tuples.       *)
(* JSON text is a sequence of tokens; json.dumps writes it and json.loads  *)
(* parses it.  A Python str that holds JSON text is the concatenation of   *)
(* the tokens.                                                             *)
(***************************************************************************)
EXTENDS Integers, Sequences, FiniteSets, TLC

VARIABLES
    pc,            \* position of the running process
    args,          \* argparse namespace: limit, skip, no_save
    response,      \* what urlopen gave to this run
    records,       \* track_shortages: records
    new_snapshot,  \* track_shortages: new_snapshot
    old_snapshot,  \* track_shortages: old_snapshot
    diff,          \* track_shortages: diff
    store,         \* the snapshot file: exists, text
    exit_code,     \* exit status of the last run (-1: none yet, or running)
    error,         \* the exception that ended the run, "" if none
    failed_at,     \* the step that raised it, "" if none
    store0,        \* history: the snapshot file when the run started
    baseline,      \* history: new_snapshot of the last run that saved
    intervening,   \* history: a failed or --no-save run ended since the last save
    requests,      \* history: the requests this run issued
    reads,         \* history: reads of the snapshot file by this run
    writes         \* history: writes of the snapshot file by this run

vars == <<pc, args, response, records, new_snapshot, old_snapshot, diff, store,
          exit_code, error, failed_at, store0, baseline, intervening, requests, reads,
          writes>>

-----------------------------------------------------------------------------
(* Bounds *)

MaxRecords == 2
MaxInt == 8

-----------------------------------------------------------------------------
(* Python values *)

PyNone == <<"None">>
PyStr(s) == <<"str", s>>
PyInt(n) == <<"int", n>>
PyList(q) == <<"list", q>>
PyDict(f) == <<"dict", f>>
EmptyDict == PyDict(<<>>)

IsDict(v) == v[1] = "dict"
IsList(v) == v[1] = "list"

\* dict.get(key), default None
Get(d, k) == IF k \in DOMAIN d[2] THEN d[2][k] ELSE PyNone

\* d[key] = value
Put(f, k, v) == [x \in (DOMAIN f) \cup {k} |-> IF x = k THEN v ELSE f[x]]

\* str(value), for the values a key candidate takes here
Str(v) ==
    CASE v[1] = "str" -> v[2]
      [] v[1] = "int" -> ToString(v[2])

\* The strings the model sorts (dict keys and field names), in code point order:
\* digits < upper case < lower case < "{".
CodepointOrder ==
    << "1", "7", "S-2", "a", "application_number", "availability_status", "created",
       "current_status", "drug_name", "generic_name", "id", "k", "key",
       "last_updated", "meta", "product_description", "product_ndc",
       "proprietary_name", "raw", "reason", "reason_for_shortage", "results",
       "revision_date", "set_id", "shortage_id", "shortage_number",
       "shortage_reason", "shortage_status", "status", "updated_at",
       "{\"status\": \"Current\"}", "{}" >>

Rank(s) == CHOOSE i \in 1..Len(CodepointOrder) : CodepointOrder[i] = s

\* sorted(S) for a set of strings
RECURSIVE Sorted(_)
Sorted(S) ==
    IF S = {} THEN <<>>
    ELSE LET m == CHOOSE x \in S : \A y \in S : Rank(x) <= Rank(y)
         IN  <<m>> \o Sorted(S \ {m})

-----------------------------------------------------------------------------
(* json.dumps(value, sort_keys=True) and json.loads(text) *)

RECURSIVE JsonDumps(_), DumpsItems(_, _), DumpsMembers(_, _, _)
JsonDumps(v) ==
    CASE v[1] = "None" -> <<"null">>
      [] v[1] = "str"  -> <<"\"", v[2], "\"">>
      [] v[1] = "int"  -> <<ToString(v[2])>>
      [] v[1] = "list" -> <<"[">> \o DumpsItems(v[2], 1) \o <<"]">>
      [] v[1] = "dict" -> <<"{">> \o DumpsMembers(v[2], Sorted(DOMAIN v[2]), 1) \o <<"}">>

DumpsItems(q, i) ==
    IF i > Len(q) THEN <<>>
    ELSE (IF i > 1 THEN <<", ">> ELSE <<>>) \o JsonDumps(q[i]) \o DumpsItems(q, i + 1)

DumpsMembers(f, names, i) ==
    IF i > Len(names) THEN <<>>
    ELSE (IF i > 1 THEN <<", ">> ELSE <<>>)
         \o <<"\"", names[i], "\"", ": ">> \o JsonDumps(f[names[i]])
         \o DumpsMembers(f, names, i + 1)

\* the text as one Python str
RECURSIVE Flatten(_)
Flatten(t) == IF t = <<>> THEN "" ELSE Head(t) \o Flatten(Tail(t))

ParseFail == [ok |-> FALSE, val |-> PyNone, next |-> 0]
Parsed(v, n) == [ok |-> TRUE, val |-> v, next |-> n]

IsNumberToken(tok) == \E n \in 0..MaxInt : ToString(n) = tok
NumberOf(tok) == CHOOSE n \in 0..MaxInt : ToString(n) = tok

RECURSIVE ParseValue(_, _), ParseItems(_, _, _), ParseMembers(_, _, _)
ParseValue(t, i) ==
    IF i > Len(t) THEN ParseFail
    ELSE CASE t[i] = "null" -> Parsed(PyNone, i + 1)
           [] t[i] = "\"" ->
                IF i + 2 <= Len(t) /\ t[i + 2] = "\""
                THEN Parsed(PyStr(t[i + 1]), i + 3) ELSE ParseFail
           [] t[i] = "[" ->
                IF i + 1 <= Len(t) /\ t[i + 1] = "]"
                THEN Parsed(PyList(<<>>), i + 2) ELSE ParseItems(t, i + 1, <<>>)
           [] t[i] = "{" ->
                IF i + 1 <= Len(t) /\ t[i + 1] = "}"
                THEN Parsed(EmptyDict, i + 2) ELSE ParseMembers(t, i + 1, <<>>)
           [] OTHER ->
                IF IsNumberToken(t[i]) THEN Parsed(PyInt(NumberOf(t[i])), i + 1)
                ELSE ParseFail

\* the items of an array, from the first item on
ParseItems(t, i, acc) ==
    LET r == ParseValue(t, i) IN
    IF ~r.ok \/ r.next > Len(t) THEN ParseFail
    ELSE CASE t[r.next] = "]"  -> Parsed(PyList(Append(acc, r.val)), r.next + 1)
           [] t[r.next] = ", " -> ParseItems(t, r.next + 1, Append(acc, r.val))
           [] OTHER -> ParseFail

\* the members of an object, from the first name on; a repeated name keeps its last value
ParseMembers(t, i, acc) ==
    IF ~(i + 3 <= Len(t) /\ t[i] = "\"" /\ t[i + 2] = "\"" /\ t[i + 3] = ": ")
    THEN ParseFail
    ELSE LET r == ParseValue(t, i + 4) IN
         IF ~r.ok \/ r.next > Len(t) THEN ParseFail
         ELSE CASE t[r.next] = "}"  -> Parsed(PyDict(Put(acc, t[i + 1], r.val)), r.next + 1)
                [] t[r.next] = ", " -> ParseMembers(t, r.next + 1, Put(acc, t[i + 1], r.val))
                [] OTHER -> ParseFail

\* json.loads: ok = FALSE stands for json.JSONDecodeError
JsonLoads(t) ==
    LET r == ParseValue(t, 1) IN
    IF r.ok /\ r.next = Len(t) + 1 THEN [ok |-> TRUE, val |-> r.val]
    ELSE [ok |-> FALSE, val |-> PyNone]

-----------------------------------------------------------------------------
(* Record Normalizer, Snapshot Builder, Differ *)

KeyFields ==
    <<"id", "shortage_id", "shortage_number", "set_id", "application_number", "product_ndc">>
NameFields == <<"drug_name", "proprietary_name", "generic_name", "product_description">>
StatusFields == <<"status", "shortage_status", "current_status", "availability_status">>
ReasonFields == <<"reason", "reason_for_shortage", "shortage_reason">>
UpdatedFields == <<"last_updated", "revision_date", "updated_at", "created">>

RECURSIVE PickFrom(_, _, _)
PickFrom(record, keys, i) ==
    IF i > Len(keys) THEN PyNone
    ELSE LET value == Get(record, keys[i]) IN
         IF value \notin {PyNone, PyStr("")} THEN value
         ELSE PickFrom(record, keys, i + 1)

\* variant: only an absent field is skipped, an empty string is taken
RECURSIVE PickPresent(_, _, _)
PickPresent(record, keys, i) ==
    IF i > Len(keys) THEN PyNone
    ELSE LET value == Get(record, keys[i]) IN
         IF value # PyNone THEN value ELSE PickPresent(record, keys, i + 1)

_pick_first_keep_empty(record, keys) == PickPresent(record, keys, 1)

_pick_first(record, keys) == PickFrom(record, keys, 1)

_record_key(record) ==
    LET candidate == _pick_first(record, KeyFields) IN
    IF candidate # PyNone THEN Str(candidate)
    ELSE Flatten(JsonDumps(record))

normalize_record(record) ==
    PyDict([ key          |-> PyStr(_record_key(record)),
             drug_name    |-> _pick_first(record, NameFields),
             status       |-> _pick_first(record, StatusFields),
             reason       |-> _pick_first(record, ReasonFields),
             last_updated |-> _pick_first(record, UpdatedFields),
             raw          |-> record ])

\* normalized["key"]
KeyOf(normalized) == normalized[2]["key"][2]

RECURSIVE BuildFrom(_, _, _)
BuildFrom(recs, i, snapshot) ==
    IF i > Len(recs) THEN snapshot
    ELSE LET normalized == normalize_record(recs[i]) IN
         BuildFrom(recs, i + 1, Put(snapshot, KeyOf(normalized), normalized))

\* variant: the first record of a key is kept
RECURSIVE BuildFirst(_, _, _)
BuildFirst(recs, i, snapshot) ==
    IF i > Len(recs) THEN snapshot
    ELSE LET normalized == normalize_record(recs[i]) IN
         BuildFirst(recs, i + 1,
                    IF KeyOf(normalized) \in DOMAIN snapshot THEN snapshot
                    ELSE Put(snapshot, KeyOf(normalized), normalized))

build_snapshot_first_wins(recs) == PyDict(BuildFirst(recs, 1, <<>>))

build_snapshot(recs) == PyDict(BuildFrom(recs, 1, <<>>))

NoDiff == [added |-> <<>>, removed |-> <<>>, changed |-> <<>>]

\* variant: two records are compared without their raw payload
SameDisplay(a, b) ==
    \A f \in {"key", "drug_name", "status", "reason", "last_updated"} : Get(a, f) = Get(b, f)

diff_snapshots_display_only(old, new) ==
    LET old_keys == DOMAIN old[2]
        new_keys == DOMAIN new[2]
        added_keys == Sorted(new_keys \ old_keys)
        removed_keys == Sorted(old_keys \ new_keys)
        changed_keys == SelectSeq(Sorted(old_keys \cap new_keys),
                                  LAMBDA k : ~SameDisplay(old[2][k], new[2][k]))
    IN  [ added   |-> [i \in 1..Len(added_keys) |-> new[2][added_keys[i]]],
          removed |-> [i \in 1..Len(removed_keys) |-> old[2][removed_keys[i]]],
          changed |-> [i \in 1..Len(changed_keys) |->
                          PyDict([ key    |-> PyStr(changed_keys[i]),
                                   before |-> old[2][changed_keys[i]],
                                   after  |-> new[2][changed_keys[i]] ])] ]

diff_snapshots(old, new) ==
    LET old_keys == DOMAIN old[2]
        new_keys == DOMAIN new[2]
        added_keys == Sorted(new_keys \ old_keys)
        removed_keys == Sorted(old_keys \ new_keys)
        changed_keys == SelectSeq(Sorted(old_keys \cap new_keys),
                                  LAMBDA k : old[2][k] # new[2][k])
    IN  [ added   |-> [i \in 1..Len(added_keys) |-> new[2][added_keys[i]]],
          removed |-> [i \in 1..Len(removed_keys) |-> old[2][removed_keys[i]]],
          changed |-> [i \in 1..Len(changed_keys) |->
                          PyDict([ key    |-> PyStr(changed_keys[i]),
                                   before |-> old[2][changed_keys[i]],
                                   after  |-> new[2][changed_keys[i]] ])] ]

-----------------------------------------------------------------------------
(* Snapshot Store: the file at snapshot_path *)

NoFile == [exists |-> FALSE, text |-> <<>>]
File(t) == [exists |-> TRUE, text |-> t]

\* variant: a file that does not hold an object is removed before the error is raised
load_snapshot_unlink(path) ==
    IF ~path.exists
    THEN [ok |-> TRUE, val |-> EmptyDict, error |-> "", store |-> path]
    ELSE LET content == JsonLoads(path.text) IN
         IF ~content.ok
         THEN [ok |-> FALSE, val |-> PyNone, error |-> "JSONDecodeError", store |-> NoFile]
         ELSE IF ~IsDict(content.val)
         THEN [ok |-> FALSE, val |-> PyNone, error |-> "RuntimeError", store |-> NoFile]
         ELSE [ok |-> TRUE, val |-> content.val, error |-> "", store |-> path]

\* variant: a file that does not hold an object reads as the empty snapshot
load_snapshot_lenient(path) ==
    IF ~path.exists
    THEN [ok |-> TRUE, val |-> EmptyDict, error |-> "", store |-> path]
    ELSE LET content == JsonLoads(path.text) IN
         IF content.ok /\ IsDict(content.val)
         THEN [ok |-> TRUE, val |-> content.val, error |-> "", store |-> path]
         ELSE [ok |-> TRUE, val |-> EmptyDict, error |-> "", store |-> path]

\* the value returned or the exception raised, and the file as load leaves it
load_snapshot(path) ==
    IF ~path.exists
    THEN [ok |-> TRUE, val |-> EmptyDict, error |-> "", store |-> path]
    ELSE LET content == JsonLoads(path.text) IN
         IF ~content.ok
         THEN [ok |-> FALSE, val |-> PyNone, error |-> "JSONDecodeError", store |-> path]
         ELSE IF ~IsDict(content.val)
         THEN [ok |-> FALSE, val |-> PyNone, error |-> "RuntimeError", store |-> path]
         ELSE [ok |-> TRUE, val |-> content.val, error |-> "", store |-> path]

\* variant: an existing file is left as it is
save_snapshot_if_absent(path, snapshot) ==
    IF path.exists THEN path ELSE File(JsonDumps(snapshot))

\* variant: the new entries are written over the old ones, which stay
save_snapshot_merge(path, snapshot) ==
    LET content == JsonLoads(path.text)
        kept == IF path.exists /\ content.ok /\ IsDict(content.val)
                THEN content.val[2] ELSE <<>>
    IN  File(JsonDumps(PyDict([k \in (DOMAIN kept) \cup (DOMAIN snapshot[2]) |->
                                   IF k \in DOMAIN snapshot[2] THEN snapshot[2][k]
                                   ELSE kept[k]])))

\* path.write_text replaces the whole file
save_snapshot(path, snapshot) == File(JsonDumps(snapshot))

-----------------------------------------------------------------------------
(* Fetch Client *)

\* the query parameters of the request (base_url and search pass through)
build_query_url(limit, skip) == [limit |-> limit, skip |-> skip]

FetchError(e) == [ok |-> FALSE, records |-> <<>>, error |-> e]

\* resp: what urlopen does with the request (an HTTPError, a URLError, or a body)
fetch_shortage_records(resp) ==
    IF resp.kind \in {"HTTPError", "URLError"} THEN FetchError("RuntimeError")
    ELSE LET payload == JsonLoads(resp.body) IN
         IF ~payload.ok THEN FetchError("JSONDecodeError")
         ELSE IF ~IsDict(payload.val) THEN FetchError("AttributeError")
         ELSE LET results == IF "results" \in DOMAIN payload.val[2]
                             THEN payload.val[2]["results"] ELSE PyList(<<>>) IN
              IF ~IsList(results) THEN FetchError("RuntimeError")
              ELSE [ok |-> TRUE, records |-> SelectSeq(results[2], IsDict), error |-> ""]

-----------------------------------------------------------------------------
(* Report Formatter: item.get(...) needs every listed item to be a dict *)

AllDicts(q) == \A i \in 1..Len(q) : IsDict(q[i])

format_ok(d) ==
    /\ AllDicts(d.added)
    /\ AllDicts(d.removed)
    /\ \A i \in 1..Len(d.changed) :
           IsDict(d.changed[i][2]["before"]) /\ IsDict(d.changed[i][2]["after"])

-----------------------------------------------------------------------------
(* The inputs the model draws from *)

RecA1 == PyDict([id |-> PyStr("1"), status |-> PyStr("Current")])
RecA2 == PyDict([id |-> PyStr("1"), status |-> PyStr("Resolved")])
RecA3 == PyDict([id |-> PyStr("1"), status |-> PyStr("Current"), meta |-> PyInt(7)])
RecS == PyDict([id |-> PyStr(""), shortage_id |-> PyStr("S-2"), generic_name |-> PyStr("a")])
RecAnon == PyDict([status |-> PyStr("Current")])

Pool == {RecA1, RecA2, RecA3, RecS, RecAnon}

\* sequences over S of length at most n
RECURSIVE SeqsUpTo(_, _)
SeqsUpTo(S, n) ==
    IF n = 0 THEN {<<>>}
    ELSE LET shorter == SeqsUpTo(S, n - 1) IN
         shorter \cup {Append(q, x) : q \in shorter, x \in S}


\* what the feed may put in `results`: records, and an entry that is no object
Items == Pool \cup {PyInt(5)}

Payloads ==
    {PyDict([results |-> PyList(q)]) : q \in SeqsUpTo(Items, MaxRecords)}
    \cup { PyDict([meta |-> PyInt(1)]),          \* no `results` field
           PyDict([results |-> PyStr("a")]),     \* `results` is a string
           PyDict([results |-> PyNone]),         \* `results` is null
           PyList(<<>>) }                        \* the document is no object

NoResponse == [kind |-> "none", body |-> <<>>]

Responses ==
    { [kind |-> "HTTPError", body |-> <<>>],
      [kind |-> "URLError", body |-> <<>>],
      [kind |-> "body", body |-> <<"<html>">>] }
    \cup {[kind |-> "body", body |-> JsonDumps(p)] : p \in Payloads}

\* what --snapshot may point at before the first run
InitialStores ==
    { NoFile,
      File(<<>>),                                      \* an empty file
      File(<<"[", "]">>),                              \* JSON, but no object
      File(JsonDumps(PyDict([k |-> PyNone]))),         \* an object of another tool
      File(JsonDumps(build_snapshot(<<RecA1, RecS>>))) }

Limits == {-1, 0, 100}
Skips == {-1, 0, 10}

-----------------------------------------------------------------------------
(* main() and track_shortages(), one action per step *)

Running == {"parsed", "validated", "fetched", "built", "loaded", "diffed", "returned"}

\* variant: --limit 0 is let through
main_validate_off_by_one(a) ==
    IF a.limit < 0 THEN "--limit must be > 0"
    ELSE IF a.skip < 0 THEN "--skip must be >= 0"
    ELSE ""

\* the checks of main() on the parsed arguments: the SystemExit message, "" if none
main_validate(a) ==
    IF a.limit <= 0 THEN "--limit must be > 0"
    ELSE IF a.skip < 0 THEN "--skip must be >= 0"
    ELSE ""

\* variant: --no-save is ignored
save_flag_always(a) == TRUE

\* main(): save=not args.no_save
save_flag(a) == ~a.no_save

\* the process ends: its locals are gone
Exit(code, e, step) ==
    /\ pc' = "idle"
    /\ exit_code' = code
    /\ error' = e
    /\ failed_at' = step
    /\ records' = <<>>
    /\ new_snapshot' = EmptyDict
    /\ old_snapshot' = EmptyDict
    /\ diff' = NoDiff

ParseArgs ==
    /\ pc = "idle"
    /\ \E limit \in Limits, skip \in Skips, no_save \in BOOLEAN :
           args' = [limit |-> limit, skip |-> skip, no_save |-> no_save]
    /\ pc' = "parsed"
    /\ exit_code' = -1
    /\ error' = ""
    /\ failed_at' = ""
    /\ response' = NoResponse
    /\ store0' = store
    /\ requests' = <<>>
    /\ reads' = 0
    /\ writes' = 0
    /\ UNCHANGED <<records, new_snapshot, old_snapshot, diff, store, baseline, intervening>>

Validate ==
    /\ pc = "parsed"
    /\ IF main_validate(args) # ""
       THEN Exit(1, "SystemExit", "validate") /\ intervening' = TRUE
       ELSE /\ pc' = "validated"
            /\ UNCHANGED <<exit_code, error, failed_at, records, new_snapshot,
                           old_snapshot, diff, intervening>>
    /\ UNCHANGED <<args, response, store, store0, baseline, requests, reads, writes>>

Fetch ==
    /\ pc = "validated"
    /\ \E resp \in Responses :
           LET r == fetch_shortage_records(resp)
           IN  /\ response' = resp
               /\ requests' = Append(requests, build_query_url(args.limit, args.skip))
               /\ IF ~r.ok
                  THEN Exit(1, r.error, "fetch") /\ intervening' = TRUE
                  ELSE /\ pc' = "fetched"
                       /\ records' = r.records
                       /\ UNCHANGED <<exit_code, error, failed_at, new_snapshot,
                                      old_snapshot, diff, intervening>>
    /\ UNCHANGED <<args, store, store0, baseline, reads, writes>>

Build ==
    /\ pc = "fetched"
    /\ new_snapshot' = build_snapshot(records)
    /\ pc' = "built"
    /\ UNCHANGED <<args, response, records, old_snapshot, diff, store, exit_code, error,
                   failed_at, store0, baseline, intervening, requests, reads, writes>>

Load ==
    /\ pc = "built"
    /\ LET r == load_snapshot(store)
       IN  /\ store' = r.store
           /\ reads' = reads + 1
           /\ IF ~r.ok
              THEN Exit(1, r.error, "load") /\ intervening' = TRUE
              ELSE /\ pc' = "loaded"
                   /\ old_snapshot' = r.val
                   /\ UNCHANGED <<exit_code, error, failed_at, records, new_snapshot, diff,
                                  intervening>>
    /\ UNCHANGED <<args, response, store0, baseline, requests, writes>>

Diff ==
    /\ pc = "loaded"
    /\ diff' = diff_snapshots(old_snapshot, new_snapshot)
    /\ pc' = "diffed"
    /\ UNCHANGED <<args, response, records, new_snapshot, old_snapshot, store, exit_code,
                   error, failed_at, store0, baseline, intervening, requests, reads, writes>>

Save ==
    /\ pc = "diffed"
    /\ IF save_flag(args)
       THEN /\ store' = save_snapshot(store, new_snapshot)
            /\ writes' = writes + 1
            /\ baseline' = new_snapshot
            /\ intervening' = FALSE
       ELSE /\ intervening' = TRUE
            /\ UNCHANGED <<store, writes, baseline>>
    /\ pc' = "returned"
    /\ UNCHANGED <<args, response, records, new_snapshot, old_snapshot, diff, exit_code,
                   error, failed_at, store0, requests, reads>>

Report ==
    /\ pc = "returned"
    /\ IF format_ok(diff) THEN Exit(0, "", "") ELSE Exit(1, "AttributeError", "report")
    /\ UNCHANGED <<args, response, store, store0, baseline, intervening, requests, reads,
                   writes>>

Next == ParseArgs \/ Validate \/ Fetch \/ Build \/ Load \/ Diff \/ Save \/ Report

InitRun ==
    /\ pc = "idle"
    /\ args = [limit |-> 100, skip |-> 0, no_save |-> FALSE]
    /\ response = NoResponse
    /\ records = <<>>
    /\ new_snapshot = EmptyDict
    /\ old_snapshot = EmptyDict
    /\ diff = NoDiff
    /\ exit_code = -1
    /\ error = ""
    /\ failed_at = ""
    /\ baseline = EmptyDict
    /\ intervening = FALSE
    /\ requests = <<>>
    /\ reads = 0
    /\ writes = 0

\* a fresh checkout: no snapshot file yet
Init == InitRun /\ store = NoFile /\ store0 = NoFile

Spec == Init /\ [][Next]_vars

\* --snapshot may name any file
InitAnyStore == InitRun /\ store \in InitialStores /\ store0 = store

SpecAnyStore == InitAnyStore /\ [][Next]_vars


-----------------------------------------------------------------------------
(* The pure functions on bounded inputs *)

\* the variables a pure function does not touch
Quiet ==
    /\ args = [limit |-> 100, skip |-> 0, no_save |-> FALSE]
    /\ response = NoResponse
    /\ exit_code = -1
    /\ error = ""
    /\ failed_at = ""
    /\ baseline = EmptyDict
    /\ intervening = FALSE
    /\ requests = <<>>
    /\ reads = 0
    /\ writes = 0

UFields == {"id", "shortage_id", "product_ndc", "status"}
UValues == {PyNone, PyStr(""), PyStr("a"), PyInt(7)}

\* every record over UFields: each field absent, null, empty, a string or a number
RecordUniverse == {PyDict(f) : f \in UNION {[D -> UValues] : D \in SUBSET UFields}}

NormInputs == SeqsUpTo(Pool, MaxRecords) \cup {<<r>> : r \in RecordUniverse}

\* build_snapshot on any fetched records
InitNorm ==
    /\ Quiet
    /\ pc = "fetched"
    /\ records \in NormInputs
    /\ new_snapshot = EmptyDict
    /\ old_snapshot = EmptyDict
    /\ diff = NoDiff
    /\ store = NoFile
    /\ store0 = NoFile

SpecNorm == InitNorm /\ [][Build]_vars

Snapshots == {build_snapshot(q) : q \in SeqsUpTo(Pool, MaxRecords)}

\* diff_snapshots on any two snapshots
InitDiff ==
    /\ Quiet
    /\ pc = "loaded"
    /\ records = <<>>
    /\ new_snapshot \in Snapshots
    /\ old_snapshot \in Snapshots
    /\ diff = NoDiff
    /\ store = NoFile
    /\ store0 = NoFile

SpecDiff == InitDiff /\ [][Diff]_vars

\* save_snapshot, then load_snapshot, at a location holding anything
InitStore ==
    /\ Quiet
    /\ pc = "rt_start"
    /\ records = <<>>
    /\ new_snapshot \in Snapshots
    /\ old_snapshot = EmptyDict
    /\ diff = NoDiff
    /\ store \in InitialStores
    /\ store0 = store

RoundTripSave ==
    /\ pc = "rt_start"
    /\ store' = save_snapshot(store, new_snapshot)
    /\ writes' = writes + 1
    /\ pc' = "rt_saved"
    /\ UNCHANGED <<args, response, records, new_snapshot, old_snapshot, diff, exit_code,
                   error, failed_at, store0, baseline, intervening, requests, reads>>

RoundTripLoad ==
    /\ pc = "rt_saved"
    /\ LET r == load_snapshot(store)
       IN  /\ store' = r.store
           /\ old_snapshot' = r.val
           /\ error' = r.error
    /\ reads' = reads + 1
    /\ pc' = "rt_loaded"
    /\ UNCHANGED <<args, response, records, new_snapshot, diff, exit_code, failed_at,
                   store0, baseline, intervening, requests, writes>>

NextStore == RoundTripSave \/ RoundTripLoad

SpecStore == InitStore /\ [][NextStore]_vars


-----------------------------------------------------------------------------
(* Properties *)

\* the keys carried by a list of normalized records
SeqKeys(q) == {KeyOf(q[i]) : i \in 1..Len(q)}

\* the file holds a JSON object
HoldsObject(path) ==
    path.exists /\ JsonLoads(path.text).ok /\ IsDict(JsonLoads(path.text).val)

\* C1: diff_snapshots puts every key of keys(old) \cup keys(new) in exactly one class:
\* added (only in new, with the new record), removed (only in old, with the old
\* record), changed (in both, the records differing anywhere, raw included, with
\* before and after) or unchanged (in both and equal, listed nowhere); no other key
\* is listed and none is listed twice.
C1_DiffPartitions ==
    pc = "diffed" =>
        LET old_keys == DOMAIN old_snapshot[2]
            new_keys == DOMAIN new_snapshot[2]
            A == SeqKeys(diff.added)
            R == SeqKeys(diff.removed)
            C == {diff.changed[i][2]["key"][2] : i \in 1..Len(diff.changed)}
        IN  /\ A = new_keys \ old_keys
            /\ R = old_keys \ new_keys
            /\ C = {k \in old_keys \cap new_keys : old_snapshot[2][k] # new_snapshot[2][k]}
            /\ Len(diff.added) = Cardinality(A)
            /\ Len(diff.removed) = Cardinality(R)
            /\ Len(diff.changed) = Cardinality(C)
            /\ \A i \in 1..Len(diff.added) :
                   diff.added[i] = new_snapshot[2][KeyOf(diff.added[i])]
            /\ \A i \in 1..Len(diff.removed) :
                   diff.removed[i] = old_snapshot[2][KeyOf(diff.removed[i])]
            /\ \A i \in 1..Len(diff.changed) :
                   LET k == diff.changed[i][2]["key"][2] IN
                   /\ diff.changed[i][2]["before"] = old_snapshot[2][k]
                   /\ diff.changed[i][2]["after"] = new_snapshot[2][k]
            /\ A \cap R = {} /\ A \cap C = {} /\ R \cap C = {}
            /\ A \cup R \cup C \subseteq old_keys \cup new_keys

\* a diff with an added, a removed and a changed key, the change being in raw alone
C1_Witness ==
    /\ pc = "diffed"
    /\ diff.added # <<>>
    /\ diff.removed # <<>>
    /\ \E i \in 1..Len(diff.changed) :
           /\ diff.changed[i][2]["before"] # diff.changed[i][2]["after"]
           /\ SameDisplay(diff.changed[i][2]["before"], diff.changed[i][2]["after"])

\* C2: a run of track_shortages that fails (in the fetch or in the load of the prior
\* snapshot) leaves the snapshot file as it was before the run; the file is written
\* only after the fetch, the load and the diff have succeeded.
C2_FailedRunKeepsStore ==
    /\ (pc = "idle" /\ failed_at \in {"fetch", "load"}) =>
           (exit_code = 1 /\ store = store0 /\ writes = 0)
    /\ (pc \in Running \cup {"idle"} /\ writes > 0) =>
           /\ Len(requests) = 1
           /\ reads = 1
           /\ failed_at \notin {"fetch", "load"}
           /\ pc \in {"returned", "idle"}

\* a saving run that failed in the load, the file still there
C2_Witness ==
    /\ pc = "idle"
    /\ failed_at = "load"
    /\ ~args.no_save
    /\ Len(requests) = 1
    /\ store.exists

\* the parsed response has no list under `results`
NoResultsList(resp) ==
    /\ resp.kind = "body"
    /\ JsonLoads(resp.body).ok
    /\ IsDict(JsonLoads(resp.body).val)
    /\ LET payload == JsonLoads(resp.body).val[2] IN
       "results" \notin DOMAIN payload \/ ~IsList(payload["results"])

\* C3: a response whose `results` field is missing or is not a list makes the fetch
\* fail before any snapshot mutation: the run aborts, no diff is made and the
\* snapshot file is not written.
C3_NoResultsListAborts ==
    (pc # "parsed" /\ pc # "validated" /\ NoResultsList(response)) =>
        /\ pc = "idle"
        /\ failed_at = "fetch"
        /\ exit_code = 1
        /\ store = store0

\* C4: after track_shortages returns, the snapshot file holds exactly the snapshot
\* built from this fetch when saving is on, and is the file of before the run with
\* --no-save; never a mix of old and new entries.
C4_StoreFollowsSaveFlag ==
    pc = "returned" =>
        IF args.no_save
        THEN store = store0 /\ writes = 0
        ELSE /\ HoldsObject(store)
             /\ JsonLoads(store.text).val = new_snapshot
             /\ writes = 1

\* a saving run over a prior snapshot with a key the fetch no longer has
C4_Witness ==
    /\ pc = "returned"
    /\ ~args.no_save
    /\ new_snapshot # EmptyDict
    /\ (DOMAIN old_snapshot[2]) \ (DOMAIN new_snapshot[2]) # {}
    /\ store # store0

\* C5: save_snapshot followed by load_snapshot at the same location gives back the
\* snapshot that was saved, whatever the location held before.
C5_RoundTrip ==
    pc = "rt_loaded" => (error = "" /\ old_snapshot = new_snapshot)

\* a snapshot of two records saved over another file and read back
C5_Witness ==
    /\ pc = "rt_loaded"
    /\ store0.exists
    /\ store # store0
    /\ Cardinality(DOMAIN new_snapshot[2]) = 2
    /\ old_snapshot = new_snapshot

\* C6: build_snapshot has exactly one entry per derived key of the records; the
\* entry under k is the normalization of the last record whose key is k, and its
\* `key` field is k.
C6_LastRecordWins ==
    pc = "built" =>
        LET keyAt(i) == _record_key(records[i])
            last(k) == CHOOSE i \in 1..Len(records) :
                           /\ keyAt(i) = k
                           /\ \A j \in 1..Len(records) : keyAt(j) = k => j <= i
        IN  /\ DOMAIN new_snapshot[2] = {keyAt(i) : i \in 1..Len(records)}
            /\ \A k \in DOMAIN new_snapshot[2] :
                   /\ new_snapshot[2][k] = normalize_record(records[last(k)])
                   /\ new_snapshot[2][k][2]["key"] = PyStr(k)

\* two different records of one key, the later one kept
C6_Witness ==
    /\ pc = "built"
    /\ Len(records) = 2
    /\ records[1] # records[2]
    /\ Cardinality(DOMAIN new_snapshot[2]) = 1
    /\ \A k \in DOMAIN new_snapshot[2] : new_snapshot[2][k][2]["raw"] = records[2]

\* the field holds a value: it is there, and is neither null nor the empty string
\* (record.get gives None for an absent field and for a null one alike)
HasValue(record, f) ==
    f \in DOMAIN record[2] /\ record[2][f] \notin {PyNone, PyStr("")}

\* the key the priority order gives the record
PriorityKey(record) ==
    LET first == {i \in 1..Len(KeyFields) :
                     /\ HasValue(record, KeyFields[i])
                     /\ \A j \in 1..(i - 1) : ~HasValue(record, KeyFields[j])}
    IN  IF first # {}
        THEN Str(record[2][KeyFields[CHOOSE i \in first : TRUE]])
        ELSE Flatten(JsonDumps(record))

\* C7: the key of a record is the value (as a string) of the first of id,
\* shortage_id, shortage_number, set_id, application_number, product_ndc that holds
\* a value, an absent or empty field being skipped; with no such field it is the
\* serialization of the record sorted by field name.  It is never empty.
C7_KeyByPriority ==
    pc = "built" =>
        /\ DOMAIN new_snapshot[2] = {PriorityKey(records[i]) : i \in 1..Len(records)}
        /\ \A k \in DOMAIN new_snapshot[2] :
               /\ k # ""
               /\ new_snapshot[2][k][2]["key"] = PyStr(k)
               /\ PriorityKey(new_snapshot[2][k][2]["raw"]) = k

\* a record whose id is empty and whose key is its product_ndc, a number
C7_Witness ==
    /\ pc = "built"
    /\ Len(records) = 1
    /\ Get(records[1], "id") = PyStr("")
    /\ Get(records[1], "shortage_id") = PyNone
    /\ Get(records[1], "product_ndc") = PyInt(7)
    /\ DOMAIN new_snapshot[2] = {"7"}

\* C8: load_snapshot gives the empty snapshot when there is no file (a first run
\* then reports every fetched key as added, none removed or changed), the mapping
\* when the file holds an object, and fails when the file holds anything else; it
\* never changes the file.
C8_LoadOutcomes ==
    /\ (pc = "loaded" /\ ~store0.exists) => old_snapshot = EmptyDict
    /\ (pc \in {"diffed", "returned"} /\ ~store0.exists) =>
           /\ SeqKeys(diff.added) = DOMAIN new_snapshot[2]
           /\ diff.removed = <<>>
           /\ diff.changed = <<>>
    /\ (pc = "loaded" /\ store0.exists) =>
           (HoldsObject(store0) /\ old_snapshot = JsonLoads(store0.text).val)
    /\ (pc \in Running \cup {"idle"} /\ reads > 0 /\ store0.exists /\ ~HoldsObject(store0)) =>
           (pc = "idle" /\ failed_at = "load" /\ exit_code = 1
            /\ error \in {"JSONDecodeError", "RuntimeError"})
    /\ failed_at = "load" => (store0.exists /\ ~HoldsObject(store0))
    /\ (pc \in Running \cup {"idle"} /\ reads > 0 /\ writes = 0) => store = store0

\* a run stopped by a file that holds JSON, but no object
C8_Witness ==
    /\ pc = "idle"
    /\ failed_at = "load"
    /\ error = "RuntimeError"
    /\ store = File(<<"[", "]">>)

\* C9: with --limit <= 0 or --skip < 0 the run exits non-zero before any request is
\* issued and before the snapshot file is read or written; a request is only ever
\* issued with limit > 0 and skip >= 0.
C9_ValidationFirst ==
    /\ (pc \in Running \cup {"idle"} /\ pc # "parsed" /\ (args.limit <= 0 \/ args.skip < 0)) =>
           /\ pc = "idle"
           /\ exit_code = 1
           /\ failed_at = "validate"
           /\ requests = <<>>
           /\ reads = 0
           /\ writes = 0
           /\ store = store0
    /\ \A i \in 1..Len(requests) : requests[i].limit > 0 /\ requests[i].skip >= 0

\* a run with --limit 0, rejected
C9_Witness ==
    /\ pc = "idle"
    /\ failed_at = "validate"
    /\ args.limit = 0
    /\ args.skip >= 0
    /\ exit_code = 1

\* C10: in a sequence of runs on one snapshot file, the diff of a run is the diff of
\* its fetch against the fetch of the latest earlier run that saved (the empty
\* snapshot if none did); failed and --no-save runs in between do not move that
\* baseline.  When the fetch equals the baseline the diff is empty.
C10_BaselineIsLastSave ==
    pc = "diffed" =>
        /\ old_snapshot = baseline
        /\ diff = diff_snapshots(baseline, new_snapshot)
        /\ new_snapshot = baseline => diff = NoDiff

\* a run after a saving run and a failed or --no-save run, fetching what was saved
C10_Witness ==
    /\ pc = "diffed"
    /\ intervening
    /\ baseline # EmptyDict
    /\ new_snapshot = baseline
    /\ diff = NoDiff


====
